---- MODULE Spec2Model ----
(***************************************************************************)
(* Model of package specification (src/specification/spec.go): the         *)
(* statement parser Spec.Parse and the directive interpreter Spec.Build    *)
(* with its helpers RunCommand, addFiles, fetchArtifact and writeManifest. *)
(* Strings are TLA+ strings; the Go string functions the code calls are    *)
(* operators computed character by character.                              *)
(***************************************************************************)
EXTENDS Integers, Sequences, FiniteSets, TLC

(***************************************************************************)
(* Bounds of the model.                                                    *)
(***************************************************************************)
\* longest script drawn from StatementPool (after an optional leading FROM)
MaxStmts == 2
\* longest volumes list passed to Build
MaxVolumes == 2
\* longest file (in lines) given to Parse
MaxLines == 3

(***************************************************************************)
(* Go string functions used by the code.                                   *)
(***************************************************************************)
Char(s, i) == SubSeq(s, i, i)

\* unicode.IsSpace restricted to the characters that occur in the inputs
IsSpace(c) == c \in {" ", "\t"}

Digits == {"0", "1", "2", "3", "4", "5", "6", "7", "8", "9"}

DigitVal(c) ==
  CASE c = "0" -> 0 [] c = "1" -> 1 [] c = "2" -> 2 [] c = "3" -> 3
    [] c = "4" -> 4 [] c = "5" -> 5 [] c = "6" -> 6 [] c = "7" -> 7
    [] c = "8" -> 8 [] c = "9" -> 9

\* strings.Contains(s, c) for a one-character c
Contains(s, c) == \E i \in 1..Len(s) : Char(s, i) = c

\* strings.HasPrefix(s, p)
HasPrefix(s, p) == Len(s) >= Len(p) /\ SubSeq(s, 1, Len(p)) = p

\* strings.TrimSpace(s)
RECURSIVE TrimSpace(_)
TrimSpace(s) ==
  IF s = "" THEN ""
  ELSE IF IsSpace(Char(s, 1)) THEN TrimSpace(SubSeq(s, 2, Len(s)))
  ELSE IF IsSpace(Char(s, Len(s))) THEN TrimSpace(SubSeq(s, 1, Len(s) - 1))
  ELSE s

\* strings.TrimRight(s, c) for a one-character cutset: every trailing c goes
RECURSIVE TrimRight(_, _)
TrimRight(s, c) ==
  IF s # "" /\ Char(s, Len(s)) = c THEN TrimRight(SubSeq(s, 1, Len(s) - 1), c)
  ELSE s

\* strings.Fields(s): the maximal runs of non-space characters
RECURSIVE FieldsFrom(_, _, _, _)
FieldsFrom(s, i, cur, acc) ==
  IF i > Len(s) THEN (IF cur = "" THEN acc ELSE Append(acc, cur))
  ELSE IF IsSpace(Char(s, i))
       THEN FieldsFrom(s, i + 1, "", IF cur = "" THEN acc ELSE Append(acc, cur))
       ELSE FieldsFrom(s, i + 1, cur \o Char(s, i), acc)

Fields(s) == FieldsFrom(s, 1, "", <<>>)

\* strings.Split(s, sep) for a one-character sep: cut at EVERY sep
RECURSIVE SplitFrom(_, _, _, _, _)
SplitFrom(s, sep, i, cur, acc) ==
  IF i > Len(s) THEN Append(acc, cur)
  ELSE IF Char(s, i) = sep
       THEN SplitFrom(s, sep, i + 1, "", Append(acc, cur))
       ELSE SplitFrom(s, sep, i + 1, cur \o Char(s, i), acc)

Split(s, sep) == SplitFrom(s, sep, 1, "", <<>>)

\* strings.Join(ws, sep)
RECURSIVE Join(_, _)
Join(ws, sep) ==
  IF ws = <<>> THEN ""
  ELSE IF Len(ws) = 1 THEN ws[1]
  ELSE ws[1] \o sep \o Join(Tail(ws), sep)

\* strconv.ParseUint(p, 10, 64): the value and whether err == nil.  On a
\* syntax error the value returned is 0.  (The range error needs more than
\* 19 digits; the inputs of this model are shorter.)
RECURSIVE DecimalValue(_, _)
DecimalValue(p, acc) ==
  IF p = "" THEN acc ELSE DecimalValue(SubSeq(p, 2, Len(p)), 10 * acc + DigitVal(Char(p, 1)))

ParseUint(p) ==
  IF p # "" /\ \A i \in 1..Len(p) : Char(p, i) \in Digits
  THEN [port |-> DecimalValue(p, 0), ok |-> TRUE]
  ELSE [port |-> 0, ok |-> FALSE]

\* words[from:] of a Go slice, with 0-based from
SliceFrom(ws, from) == SubSeq(ws, from + 1, Len(ws))

\* filepath.Base for the paths of the inputs: the text after the last '/'
Base(p) == LET parts == Split(p, "/") IN parts[Len(parts)]

\* the sequences over S of length at most n
SeqsUpTo(S, n) == UNION {[1..k -> S] : k \in 0..n}

IsPrefix(s, t) == Len(s) <= Len(t) /\ SubSeq(t, 1, Len(s)) = s

(***************************************************************************)
(* State.                                                                  *)
(***************************************************************************)
VARIABLES
  Statements,         \* Spec.Statements
  State,              \* Spec.State: Container, Env, Cwd, Manifest
  file,               \* the lines of the script file Parse reads
  parsePc,            \* "idle", "scan" (inside the scanner loop), "returned"
  lineNo,             \* number of lines the scanner has delivered
  previousStatement,  \* Parse's accumulator of continuation lines
  parseErr,           \* what the last call of Parse returned: "nil", "open", "none"
  parses,             \* number of calls of Parse so far
  volumes,            \* the volumes argument of Build
  pc,                 \* Build: "idle", "loop", "fetch", "write", "done"
  idx,                \* Build: index of the next statement of the range loop
  result,             \* how Build ended: "none", "ok", "error", "panic", "exit"
  errAt,              \* index of the statement Build ended at (0: none, after the loop)
  err,                \* the error Build returned, or what it crashed with
  ops,                \* log of the operations requested outside the process
  written,            \* the manifests handed to ioutil.WriteFile by writeManifest
  lxc,                \* the container runtime: state of each container handle
  calls               \* the calls of Stop and Destroy so far, with what they returned

vars == <<Statements, State, file, parsePc, lineNo, previousStatement, parseErr,
          parses, volumes, pc, idx, result, errAt, err, ops, written, lxc, calls>>

parseVars == <<file, parsePc, lineNo, previousStatement, parseErr, parses>>

buildVars == <<State, volumes, pc, idx, result, errAt, err, ops, written, lxc, calls>>

\* the nil *lxc.Container
NoContainer == "nil"

\* an empty map[string]string
NoLabels == [k \in {} |-> ""]

EmptyManifest ==
  [Env |-> <<>>, Labels |-> NoLabels, ExposedPorts |-> <<>>, Maintainers |-> <<>>,
   WorkDir |-> "", User |-> "", EntryPoint |-> <<>>]

\* a runtime with no container of this Spec
NoContainers == [defined |-> {}, running |-> {}]

\* the zero BuilderState of a Spec made by New
ZeroState == [Container |-> NoContainer, Env |-> <<>>, Cwd |-> "", Manifest |-> EmptyManifest]

(***************************************************************************)
(* Spec.Parse, one action per branch of the scanner loop.                  *)
(***************************************************************************)
\* longest number of calls of Parse on one Spec
MaxParses == 2

LinePool ==
  {"#c", "#c \\", "RUN a \\", " b\\\\", "\\", "", " \t", "RUN c", " # d"}

Files == SeqsUpTo(LinePool, MaxLines)

\* regexp `^#`
isComment(line) == line # "" /\ Char(line, 1) = "#"

\* regexp `\\$`
isExtendedStatement(line) == line # "" /\ Char(line, Len(line)) = "\\"

\* the branch of the if/else-if chain of the loop body that line takes
LineKindSwapped(line) ==
  IF isExtendedStatement(line) THEN "extended"
  ELSE IF isComment(line) THEN "comment"
  ELSE IF TrimSpace(line) = "" THEN "empty"
  ELSE "statement"

LineKind(line) ==
  IF isComment(line) THEN "comment"
  ELSE IF isExtendedStatement(line) THEN "extended"
  ELSE IF TrimSpace(line) = "" THEN "empty"
  ELSE "statement"

\* the accumulator after a line that ends with a backslash
ExtendStatement(previous, line) ==
  IF previous # ""
  THEN previous \o " " \o TrimRight(line, "\\")
  ELSE TrimRight(line, "\\")

\* the statement a completing line makes of the accumulator
CompleteStatementLineOnly(previous, line) == line

CompleteStatement(previous, line) ==
  IF previous # ""
  THEN previous \o " " \o line
  ELSE line

\* the line scanner.Scan() delivers next
CurLine == file[lineNo + 1]

Scanning == parsePc = "scan" /\ lineNo < Len(file)

\* os.Open succeeds: the scanner starts with an empty accumulator
ParseOpen ==
  /\ parsePc \in {"idle", "returned"}
  /\ parses < MaxParses
  /\ parsePc' = "scan"
  /\ lineNo' = 0
  /\ previousStatement' = ""
  /\ parseErr' = "none"
  /\ parses' = parses + 1
  /\ UNCHANGED <<Statements, file>>
  /\ UNCHANGED buildVars

\* os.Open fails: Parse returns the error and nothing else happens
ParseOpenFail ==
  /\ parsePc \in {"idle", "returned"}
  /\ parses < MaxParses
  /\ parsePc' = "returned"
  /\ parseErr' = "open"
  /\ parses' = parses + 1
  /\ UNCHANGED <<Statements, file, lineNo, previousStatement>>
  /\ UNCHANGED buildVars

ParseComment ==
  /\ Scanning
  /\ LineKind(CurLine) = "comment"
  /\ lineNo' = lineNo + 1
  /\ UNCHANGED <<Statements, file, parsePc, previousStatement, parseErr, parses>>
  /\ UNCHANGED buildVars

ParseExtended ==
  /\ Scanning
  /\ LineKind(CurLine) = "extended"
  /\ previousStatement' = ExtendStatement(previousStatement, CurLine)
  /\ lineNo' = lineNo + 1
  /\ UNCHANGED <<Statements, file, parsePc, parseErr, parses>>
  /\ UNCHANGED buildVars

ParseEmpty ==
  /\ Scanning
  /\ LineKind(CurLine) = "empty"
  /\ lineNo' = lineNo + 1
  /\ UNCHANGED <<Statements, file, parsePc, previousStatement, parseErr, parses>>
  /\ UNCHANGED buildVars

ParseStatement ==
  /\ Scanning
  /\ LineKind(CurLine) = "statement"
  /\ Statements' = Append(Statements, CompleteStatement(previousStatement, CurLine))
  /\ previousStatement' = ""
  /\ lineNo' = lineNo + 1
  /\ UNCHANGED <<file, parsePc, parseErr, parses>>
  /\ UNCHANGED buildVars

\* scanner.Scan() returns false: Parse returns nil, the accumulator is dropped
ParseReturn ==
  /\ parsePc = "scan"
  /\ lineNo = Len(file)
  /\ parsePc' = "returned"
  /\ parseErr' = "nil"
  /\ UNCHANGED <<Statements, file, lineNo, previousStatement, parses>>
  /\ UNCHANGED buildVars

BuildIdle ==
  /\ State = ZeroState
  /\ volumes = <<>>
  /\ pc = "idle"
  /\ idx = 0
  /\ result = "none"
  /\ errAt = 0
  /\ err = ""
  /\ ops = <<>>
  /\ written = <<>>
  /\ lxc = NoContainers
  /\ calls = <<>>

\* a Spec made by New, and a script file to parse
ParseInit ==
  /\ Statements = <<>>
  /\ file \in Files
  /\ parsePc = "idle"
  /\ lineNo = 0
  /\ previousStatement = ""
  /\ parseErr = "none"
  /\ parses = 0
  /\ BuildIdle

ParseNext ==
  \/ ParseOpen
  \/ ParseOpenFail
  \/ ParseComment
  \/ ParseExtended
  \/ ParseEmpty
  \/ ParseStatement
  \/ ParseReturn

ParseSpec == ParseInit /\ [][ParseNext]_vars

(***************************************************************************)
(* Collaborators of Build.  The container runtime, the host file system    *)
(* and the YAML encoder are outside the package: each call is logged in    *)
(* ops and its outcome is a nondeterministic choice of the calling action. *)
(***************************************************************************)
Op(o, a, r) == [op |-> o, arg |-> a, out |-> r]

\* the handle CloneAndStartContainer returns for a volume
Handle(volume) == "ct-" \o volume

\* the handle CloneAndStartContainer returns together with an error
FailedClone == NoContainer

\* ParentName(words[1]): the name of the base container
ParentName(ref) == ref

\* Container.ConfigItem("lxc.rootfs")[0]
Rootfs(container) == "/lxc/" \o container \o "/rootfs"

\* filepath.Abs(src) in the working directory of the host process
HostCwd == "/host"

Abs(src) == IF HasPrefix(src, "/") THEN src ELSE HostCwd \o "/" \o src

\* the manifest a base image may carry
ParentManifest ==
  [Env |-> <<"P=0">>, Labels |-> [k \in {"base"} |-> "yes"], ExposedPorts |-> <<22>>,
   Maintainers |-> <<"Base Team">>, WorkDir |-> "/base", User |-> "",
   EntryPoint |-> <<"/sbin/init">>]

LoadOutcomes == {"err", "empty", "full"}

\* Manifest.Load(name): a failure leaves the manifest as it is; a success
\* brings in the base image's manifest state
Load(m, name, load) ==
  IF load = "err" THEN m
  ELSE LET p == IF load = "full" THEN ParentManifest ELSE EmptyManifest
       IN [Env |-> m.Env \o p.Env,
           Labels |-> [k \in DOMAIN m.Labels \cup DOMAIN p.Labels |->
                         IF k \in DOMAIN p.Labels THEN p.Labels[k] ELSE m.Labels[k]],
           ExposedPorts |-> m.ExposedPorts \o p.ExposedPorts,
           Maintainers |-> m.Maintainers \o p.Maintainers,
           WorkDir |-> IF p.WorkDir # "" THEN p.WorkDir ELSE m.WorkDir,
           User |-> IF p.User # "" THEN p.User ELSE m.User,
           EntryPoint |-> IF m.EntryPoint = <<>> THEN p.EntryPoint ELSE m.EntryPoint]

(***************************************************************************)
(* Spec.RunCommand                                                         *)
(***************************************************************************)
RECURSIVE Exports(_)
Exports(env) ==
  IF env = <<>> THEN "" ELSE "export " \o Head(env) \o "\n" \o Exports(Tail(env))

\* the text RunCommand writes to <rootfs>/tmp/dockerfile.sh
ScriptTextSuBeforeCd(state, command) ==
  "#!/bin/bash\n"
  \o Exports(state.Env)
  \o (IF state.Manifest.User # "" THEN "su - " \o state.Manifest.User \o "\n" ELSE "")
  \o (IF state.Cwd # "" THEN "cd " \o state.Cwd \o "\n" ELSE "")
  \o Join(command, " ")

ScriptText(state, command) ==
  "#!/bin/bash\n"
  \o Exports(state.Env)
  \o (IF state.Cwd # "" THEN "cd " \o state.Cwd \o "\n" ELSE "")
  \o (IF state.Manifest.User # "" THEN "su - " \o state.Manifest.User \o "\n" ELSE "")
  \o Join(command, " ")

\* "ok"; "writefile": the script cannot be written; "driver": RunCommandStatus
\* returns an error; "exit": the command ends with a non-zero exit code
RunOutcomes == {"ok", "writefile", "driver", "exit"}

ErrWriteFile == "write /tmp/dockerfile.sh failed"
ErrDriver == "RunCommandStatus failed"
ErrExitCode == "Failed to execute command. Exit code != 0"

\* the requests RunCommand makes and the error it returns ("" is nil)
RunCommand(state, command, out) ==
  LET text == ScriptText(state, command)
  IN IF out = "writefile"
     THEN [ops |-> <<Op("writefile", text, "err")>>, err |-> ErrWriteFile]
     ELSE [ops |-> <<Op("writefile", text, "ok"), Op("exec", text, out)>>,
           err |-> CASE out = "driver" -> ErrDriver
                     [] out = "exit" -> ErrExitCode
                     [] OTHER -> ""]

(***************************************************************************)
(* What a handler of Build comes to: the new Build State, the requests it  *)
(* made, the runtime, and how it ended: "next" (the loop goes on),         *)
(* "error" (Build returns err), "panic" (a Go run-time panic), "exit"      *)
(* (the process exits inside the handler).                                 *)
(***************************************************************************)
Res(state, o, rt, r, e) == [state |-> state, ops |-> o, lxc |-> rt, res |-> r, err |-> e]

PanicIndex == "panic: index out of range"
PanicNil == "panic: nil pointer dereference"

\* Go's words[i], i counted from 0
W(words, i) == words[i + 1]

(***************************************************************************)
(* Spec.addFiles                                                           *)
(***************************************************************************)
\* first step that fails: "abs" filepath.Abs, "cp" host copy, the three
\* failures of RunCommand, "rm" the removal of the staging copy; or "none"
AddOutcomes == {"none", "abs", "cp", "writefile", "driver", "exit", "rm"}

ErrAbs == "filepath.Abs failed"
ErrCp == "/bin/cp failed"
ErrRm == "/bin/rm failed"

addFiles(state, rt, src, dest, fail) ==
  IF state.Container = NoContainer THEN Res(state, <<>>, rt, "panic", PanicNil)
  ELSE IF fail = "abs" THEN Res(state, <<>>, rt, "error", ErrAbs)
  ELSE
    LET rootfs == Rootfs(state.Container)
        absPath == Abs(src)
        base == Base(absPath)
        tmpContainer == rootfs \o "/tmp/" \o base
        cpArg == absPath \o " " \o tmpContainer
        run == RunCommand(state, <<"cp", "-r", "/tmp/" \o base, dest>>,
                          IF fail \in {"writefile", "driver", "exit"} THEN fail ELSE "ok")
    IN IF fail = "cp" THEN Res(state, <<Op("hostcp", cpArg, "err")>>, rt, "error", ErrCp)
       ELSE IF run.err # ""
       THEN Res(state, <<Op("hostcp", cpArg, "ok")>> \o run.ops, rt, "error", run.err)
       ELSE IF fail = "rm"
       THEN Res(state, <<Op("hostcp", cpArg, "ok")>> \o run.ops
                         \o <<Op("hostrm", tmpContainer, "err")>>, rt, "error", ErrRm)
       ELSE Res(state, <<Op("hostcp", cpArg, "ok")>> \o run.ops
                         \o <<Op("hostrm", tmpContainer, "ok")>>, rt, "next", "")

(***************************************************************************)
(* The cases of the switch of Spec.Build, as functions of the Build State  *)
(* and of the outcomes of the calls the case makes.                        *)
(***************************************************************************)
ErrMultipleFrom == "Container already built. Multiple FROM declaration?"
ErrClone == "CloneAndStartContainer failed"
ErrNoContainer == "No container has been created yet. Use FROM directive"
ErrLabel == "Invalid LABEL instruction. LABELS must have '=' in them"
ErrEntryPoint == "Entrypoint/CMD is already defined. Probably multiple declaration"

\* spec.State.Container != nil
ContainerBuiltNever(state) == FALSE

ContainerBuilt(state) == state.Container # NoContainer

\* k clones succeed; if k < Len(vols) the next one fails
caseFROM(state, rt, words, vols, k, load) ==
  IF ContainerBuilt(state) THEN Res(state, <<>>, rt, "error", ErrMultipleFrom)
  ELSE IF Len(words) < 2 THEN Res(state, <<>>, rt, "panic", PanicIndex)
  ELSE
    LET name == ParentName(W(words, 1))
        n == Len(vols)
        tried == IF k < n THEN k + 1 ELSE n
        cloneOps == [i \in 1..tried |->
                       Op("clone", name \o " " \o vols[i], IF i <= k THEN "ok" ELSE "err")]
        handles == {Handle(vols[i]) : i \in 1..k}
        rt2 == [defined |-> rt.defined \cup handles, running |-> rt.running \cup handles]
    IN IF k < n
       THEN Res([state EXCEPT !.Container = FailedClone], cloneOps, rt2, "error", ErrClone)
       ELSE Res([state EXCEPT !.Container = IF n = 0 THEN @ ELSE Handle(vols[n]),
                              !.Manifest = Load(@, name, load)],
                cloneOps \o <<Op("load", name, load)>>, rt2, "next", "")

caseRUN(state, rt, words, out) ==
  IF state.Container = NoContainer THEN Res(state, <<>>, rt, "error", ErrNoContainer)
  ELSE LET run == RunCommand(state, SliceFrom(words, 1), out)
       IN Res(state, run.ops, rt, IF run.err # "" THEN "error" ELSE "next", run.err)

\* words[i]+"="+words[i+1]
EnvPairSwapped(key, value) == value \o "=" \o key

EnvPair(key, value) == key \o "=" \o value

\* the for loop of case "ENV", from index i
RECURSIVE EnvLoop(_, _, _, _)
EnvLoop(state, rt, words, i) ==
  IF i >= Len(words) THEN Res(state, <<>>, rt, "next", "")
  ELSE IF Contains(W(words, i), "=")
  THEN EnvLoop([state EXCEPT !.Env = Append(@, W(words, i)),
                             !.Manifest.Env = Append(@, W(words, i))], rt, words, i + 1)
  ELSE IF i + 1 >= Len(words) THEN Res(state, <<>>, rt, "panic", PanicIndex)
  ELSE EnvLoop([state EXCEPT !.Env = Append(@, EnvPair(W(words, i), W(words, i + 1))),
                             !.Manifest.Env = Append(@, EnvPair(W(words, i), W(words, i + 1)))],
               rt, words, i + 2)

caseENV(state, rt, words) == EnvLoop(state, rt, words, 1)

caseWORKDIRCwdOnly(state, rt, words) ==
  IF Len(words) < 2 THEN Res(state, <<>>, rt, "panic", PanicIndex)
  ELSE Res([state EXCEPT !.Cwd = W(words, 1)], <<>>, rt, "next", "")

caseWORKDIR(state, rt, words) ==
  IF Len(words) < 2 THEN Res(state, <<>>, rt, "panic", PanicIndex)
  ELSE Res([state EXCEPT !.Cwd = W(words, 1), !.Manifest.WorkDir = W(words, 1)],
           <<>>, rt, "next", "")

\* case "ADD" and case "COPY"
caseADD(state, rt, words, fail) ==
  IF Len(words) < 3 THEN Res(state, <<>>, rt, "panic", PanicIndex)
  ELSE addFiles(state, rt, W(words, 1), W(words, 2), fail)

caseCOPYArgsSwapped(state, rt, words, fail) ==
  IF Len(words) < 3 THEN Res(state, <<>>, rt, "panic", PanicIndex)
  ELSE addFiles(state, rt, W(words, 2), W(words, 1), fail)

caseCOPY(state, rt, words, fail) ==
  IF Len(words) < 3 THEN Res(state, <<>>, rt, "panic", PanicIndex)
  ELSE addFiles(state, rt, W(words, 1), W(words, 2), fail)

\* Labels[k] = v
SetLabel(labels, k, v) == [x \in DOMAIN labels \cup {k} |-> IF x = k THEN v ELSE labels[x]]

\* the for loop of case "LABEL", from index i; log.Fatalf ends the process
RECURSIVE LabelLoop(_, _, _, _)
LabelLoop(state, rt, words, i) ==
  IF i >= Len(words) THEN Res(state, <<>>, rt, "next", "")
  ELSE IF Contains(W(words, i), "=")
  THEN LET pair == Split(W(words, i), "=")
       IN LabelLoop([state EXCEPT !.Manifest.Labels = SetLabel(@, pair[1], pair[2])],
                    rt, words, i + 1)
  ELSE Res(state, <<>>, rt, "exit", ErrLabel)

caseLABEL(state, rt, words) == LabelLoop(state, rt, words, 1)

\* the for loop of case "EXPOSE", from index i: port is appended whether or
\* not ParseUint returned an error
RECURSIVE ExposeLoop(_, _, _, _)
ExposeLoop(state, rt, words, i) ==
  IF i >= Len(words) THEN Res(state, <<>>, rt, "next", "")
  ELSE ExposeLoop([state EXCEPT !.Manifest.ExposedPorts = Append(@, ParseUint(W(words, i)).port)],
                  rt, words, i + 1)

caseEXPOSE(state, rt, words) == ExposeLoop(state, rt, words, 1)

caseMAINTAINER(state, rt, words) ==
  Res([state EXCEPT !.Manifest.Maintainers = Append(@, Join(SliceFrom(words, 1), " "))],
      <<>>, rt, "next", "")

caseUSER(state, rt, words) ==
  IF Len(words) < 2 THEN Res(state, <<>>, rt, "panic", PanicIndex)
  ELSE Res([state EXCEPT !.Manifest.User = W(words, 1)], <<>>, rt, "next", "")

caseVOLUME(state, rt, words) == Res(state, <<>>, rt, "next", "")

caseSTOPSIGNAL(state, rt, words) == Res(state, <<>>, rt, "next", "")

caseCMD(state, rt, words) ==
  IF Len(state.Manifest.EntryPoint) = 0
  THEN Res([state EXCEPT !.Manifest.EntryPoint = SliceFrom(words, 1)], <<>>, rt, "next", "")
  ELSE Res(state, <<>>, rt, "error", ErrEntryPoint)

caseENTRYPOINT(state, rt, words) ==
  IF Len(state.Manifest.EntryPoint) = 0
  THEN Res([state EXCEPT !.Manifest.EntryPoint = SliceFrom(words, 1)], <<>>, rt, "next", "")
  ELSE Res(state, <<>>, rt, "error", ErrEntryPoint)

\* default: the error value is built and dropped
caseDefaultReturnsError(state, rt, words) == Res(state, <<>>, rt, "error", "Unknown instruction")

caseDefault(state, rt, words) == Res(state, <<>>, rt, "next", "")

Keywords ==
  {"FROM", "RUN", "ENV", "WORKDIR", "ADD", "COPY", "LABEL", "EXPOSE", "MAINTAINER",
   "USER", "VOLUME", "STOPSIGNAL", "CMD", "ENTRYPOINT"}

(***************************************************************************)
(* Spec.fetchArtifact and Spec.writeManifest                               *)
(***************************************************************************)
ArtifactPrefix == "nut_artifact_"

\* the labels the range loop acts on
ArtifactKeysAll(labels) == DOMAIN labels

ArtifactKeys(labels) == {k \in DOMAIN labels : HasPrefix(k, ArtifactPrefix)}

\* per artifact: "ok", "cpfail" (the copy to the host fails), or a failure
\* of RunCommand
ArtifactOutcomes == {"ok", "cpfail", "writefile", "driver", "exit"}

\* the range loop over the labels, for the artifact keys in the order the
\* map iteration happens to deliver them
RECURSIVE ArtifactLoop(_, _, _, _, _)
ArtifactLoop(state, order, outs, i, acc) ==
  IF i > Len(order) THEN [ops |-> acc, err |-> ""]
  ELSE
    LET v == state.Manifest.Labels[order[i]]
        artifact == Base(v)
        run == RunCommand(state, <<"cp", "-r", v, "/tmp/" \o artifact>>,
                          IF outs[i] \in {"writefile", "driver", "exit"} THEN outs[i] ELSE "ok")
        pathInContainer == Rootfs(state.Container) \o "/tmp/" \o artifact
    IN IF run.err # "" THEN [ops |-> acc \o run.ops, err |-> run.err]
       ELSE ArtifactLoop(state, order, outs, i + 1,
              acc \o run.ops
                  \o <<Op("hostcp", pathInContainer \o " " \o artifact,
                          IF outs[i] = "cpfail" THEN "err" ELSE "ok")>>)

fetchArtifactErrDropped(state, rt, order, outs) ==
  IF state.Container = NoContainer THEN Res(state, <<>>, rt, "panic", PanicNil)
  ELSE Res(state, ArtifactLoop(state, order, outs, 1, <<>>).ops, rt, "next", "")

fetchArtifact(state, rt, order, outs) ==
  IF state.Container = NoContainer THEN Res(state, <<>>, rt, "panic", PanicNil)
  ELSE LET r == ArtifactLoop(state, order, outs, 1, <<>>)
       IN Res(state, r.ops, rt, IF r.err # "" THEN "error" ELSE "next", r.err)

\* filepath.Join(rootfs, "../manifest.yml"): beside the root file system
ManifestPath(container) == "/lxc/" \o container \o "/manifest.yml"

\* "ok", "marshal": yaml.Marshal fails, "write": ioutil.WriteFile fails
WriteOutcomes == {"ok", "marshal", "write"}

ErrMarshal == "yaml.Marshal failed"
ErrWriteManifest == "write manifest.yml failed"

\* the manifests handed to WriteFile, and the result of writeManifest
writeManifest(state, rt, out) ==
  IF state.Container = NoContainer THEN [files |-> <<>>, res |-> "panic", err |-> PanicNil]
  ELSE IF out = "marshal" THEN [files |-> <<>>, res |-> "error", err |-> ErrMarshal]
  ELSE [files |-> <<[path |-> ManifestPath(state.Container),
                     manifest |-> state.Manifest,
                     out |-> IF out = "write" THEN "err" ELSE "ok"]>>,
        res |-> IF out = "write" THEN "error" ELSE "ok",
        err |-> IF out = "write" THEN ErrWriteManifest ELSE ""]

(***************************************************************************)
(* Spec.Build: the call, one action per case of the switch (one iteration  *)
(* of the range loop each), then fetchArtifact and writeManifest.          *)
(***************************************************************************)
StatementPool ==
  {"FROM base", "RUN make all", "ENV A=1 B 2", "WORKDIR /srv", "ADD a /b", "COPY a /b",
   "LABEL k=v k=a=b", "LABEL nut_artifact_x=/data/out nut_artifact_y=/b",
   "EXPOSE 80 not-a-number 443", "MAINTAINER Jo Doe", "USER app", "VOLUME /v",
   "STOPSIGNAL 9", "CMD run", "CMD", "ENTRYPOINT /init -x", "BOGUS x"}

\* statements that lack an argument their case reads, or hold a LABEL argument
\* without '=': Build is over wherever one of them is processed, so they
\* are drawn as the last statement of a script only
EndingPool == {"FROM", "ENV K", "WORKDIR", "ADD a", "USER", "LABEL x=1 bad y=2"}

\* the script of the round trip of section 8 of the specification
RoundTripScript == <<"FROM base", "ENV X=1", "WORKDIR /srv", "CMD [\"run\"]">>

\* a script whose RUN follows several ENV, WORKDIR and USER statements
RunScript ==
  <<"FROM base", "WORKDIR /tmp", "ENV A=1 B 2", "USER root", "WORKDIR /srv", "USER app",
    "ENV C=3", "RUN make all", "ENV D=4">>

Scripts ==
  LET bodies == SeqsUpTo(StatementPool, MaxStmts)
      tails == bodies \cup {SubSeq(b, 1, Len(b) - 1) \o <<e>> :
                              b \in bodies \ {<<>>}, e \in EndingPool}
  IN tails \cup {<<"FROM base">> \o t : t \in tails} \cup {RoundTripScript, RunScript}

\* no volume, one volume, MaxVolumes volumes
VolumeLists == {[i \in 1..k |-> "v" \o ToString(i)] : k \in {0, 1, MaxVolumes}}

\* the Statements are those Parse made of a file with one statement per line
Init ==
  /\ Statements \in Scripts
  /\ file = Statements
  /\ parsePc = "returned"
  /\ lineNo = Len(Statements)
  /\ previousStatement = ""
  /\ parseErr = "nil"
  /\ parses = 1
  /\ BuildIdle

\* Build(volumes...): a fresh BuilderState
BuildBegin ==
  /\ pc = "idle"
  /\ parsePc # "scan"
  /\ \E vols \in VolumeLists : volumes' = vols
  /\ State' = ZeroState
  /\ pc' = "loop"
  /\ idx' = 1
  /\ UNCHANGED <<Statements, result, errAt, err, ops, written, lxc, calls>>
  /\ UNCHANGED parseVars

InLoop == pc = "loop" /\ idx <= Len(Statements)

\* strings.Fields(statement)
words == Fields(Statements[idx])

\* words[0], read off the statement without splitting the rest of it
RECURSIVE FirstFieldFrom(_, _, _)
FirstFieldFrom(s, i, cur) ==
  IF i > Len(s) THEN cur
  ELSE IF IsSpace(Char(s, i)) THEN (IF cur = "" THEN FirstFieldFrom(s, i + 1, cur) ELSE cur)
  ELSE FirstFieldFrom(s, i + 1, cur \o Char(s, i))

firstWord == FirstFieldFrom(Statements[idx], 1, "")

At(keyword) == InLoop /\ firstWord = keyword

\* the handler ended as r says: the loop goes on or Build is over
Apply(r) ==
  /\ State' = r.state
  /\ ops' = ops \o r.ops
  /\ lxc' = r.lxc
  /\ IF r.res = "next"
     THEN /\ idx' = idx + 1
          /\ UNCHANGED <<pc, result, errAt, err>>
     ELSE /\ pc' = "done"
          /\ result' = r.res
          /\ errAt' = idx
          /\ err' = r.err
          /\ UNCHANGED idx
  /\ UNCHANGED <<Statements, volumes, written, calls>>
  /\ UNCHANGED parseVars

StepFROM ==
  /\ At("FROM")
  /\ \E k \in 0..Len(volumes), load \in LoadOutcomes :
       Apply(caseFROM(State, lxc, words, volumes, k, load))

StepRUN ==
  /\ At("RUN")
  /\ \E out \in RunOutcomes : Apply(caseRUN(State, lxc, words, out))

StepENV == At("ENV") /\ Apply(caseENV(State, lxc, words))

StepWORKDIR == At("WORKDIR") /\ Apply(caseWORKDIR(State, lxc, words))

StepADD ==
  /\ At("ADD")
  /\ \E fail \in AddOutcomes : Apply(caseADD(State, lxc, words, fail))

StepCOPY ==
  /\ At("COPY")
  /\ \E fail \in AddOutcomes : Apply(caseCOPY(State, lxc, words, fail))

StepLABEL == At("LABEL") /\ Apply(caseLABEL(State, lxc, words))

StepEXPOSE == At("EXPOSE") /\ Apply(caseEXPOSE(State, lxc, words))

StepMAINTAINER == At("MAINTAINER") /\ Apply(caseMAINTAINER(State, lxc, words))

StepUSER == At("USER") /\ Apply(caseUSER(State, lxc, words))

StepVOLUME == At("VOLUME") /\ Apply(caseVOLUME(State, lxc, words))

StepSTOPSIGNAL == At("STOPSIGNAL") /\ Apply(caseSTOPSIGNAL(State, lxc, words))

StepCMD == At("CMD") /\ Apply(caseCMD(State, lxc, words))

StepENTRYPOINT == At("ENTRYPOINT") /\ Apply(caseENTRYPOINT(State, lxc, words))

StepDefault ==
  /\ InLoop
  /\ firstWord \notin Keywords
  /\ Apply(caseDefault(State, lxc, words))

\* the orders in which a range over the map can deliver the keys of S
Orders(S) == {o \in [1..Cardinality(S) -> S] : \A i, j \in DOMAIN o : o[i] = o[j] => i = j}

\* the loop is over: fetchArtifact
BuildFetch ==
  /\ pc = "loop"
  /\ idx > Len(Statements)
  /\ \E order \in Orders(ArtifactKeys(State.Manifest.Labels)) :
       \E outs \in [1..Len(order) -> ArtifactOutcomes] :
         LET r == fetchArtifact(State, lxc, order, outs)
         IN /\ ops' = ops \o r.ops
            /\ IF r.res = "next"
               THEN /\ pc' = "write"
                    /\ UNCHANGED <<result, err>>
               ELSE /\ pc' = "done"
                    /\ result' = r.res
                    /\ err' = r.err
  /\ UNCHANGED <<Statements, State, volumes, idx, errAt, written, lxc, calls>>
  /\ UNCHANGED parseVars

\* return spec.writeManifest()
BuildWrite ==
  /\ pc = "write"
  /\ \E out \in WriteOutcomes :
       LET w == writeManifest(State, lxc, out)
       IN /\ written' = written \o w.files
          /\ result' = w.res
          /\ err' = w.err
  /\ pc' = "done"
  /\ UNCHANGED <<Statements, State, volumes, idx, errAt, ops, lxc, calls>>
  /\ UNCHANGED parseVars

Next ==
  \/ BuildBegin
  \/ StepFROM
  \/ StepRUN
  \/ StepENV
  \/ StepWORKDIR
  \/ StepADD
  \/ StepCOPY
  \/ StepLABEL
  \/ StepEXPOSE
  \/ StepMAINTAINER
  \/ StepUSER
  \/ StepVOLUME
  \/ StepSTOPSIGNAL
  \/ StepCMD
  \/ StepENTRYPOINT
  \/ StepDefault
  \/ BuildFetch
  \/ BuildWrite

Spec == Init /\ [][Next]_vars

(***************************************************************************)
(* Spec.Stop and Spec.Destroy, called by the owner of the Spec before or   *)
(* after a Build that has returned.                                        *)
(***************************************************************************)
\* longest sequence of calls of Stop and Destroy on one Spec
MaxCalls == 3

ErrNotInitialized == "Container is not initialized"
ErrNotPresent == "Container is not present"
ErrStop == "Container.Stop failed"
ErrDestroy == "Container.Destroy failed"

\* Container.Defined()
Defined(rt, container) == container \in rt.defined

\* Container.State() == lxc.RUNNING
Running(rt, container) == container \in rt.running

\* Container.Stop(): the request, the runtime after it, the error
ContainerStop(rt, container, out) ==
  [ops |-> <<Op("stop", container, out)>>,
   lxc |-> IF out = "ok" THEN [rt EXCEPT !.running = @ \ {container}] ELSE rt,
   err |-> IF out = "ok" THEN "" ELSE ErrStop]

\* Container.Destroy()
ContainerDestroy(rt, container, out) ==
  [ops |-> <<Op("destroy", container, out)>>,
   lxc |-> IF out = "ok"
           THEN [defined |-> rt.defined \ {container}, running |-> rt.running \ {container}]
           ELSE rt,
   err |-> IF out = "ok" THEN "" ELSE ErrDestroy]

\* Spec.Stop
StopResult(state, rt, stopOut) ==
  IF state.Container = NoContainer THEN [ops |-> <<>>, lxc |-> rt, err |-> ErrNotInitialized]
  ELSE IF ~Defined(rt, state.Container) THEN [ops |-> <<>>, lxc |-> rt, err |-> ErrNotPresent]
  ELSE IF Running(rt, state.Container) THEN ContainerStop(rt, state.Container, stopOut)
  ELSE [ops |-> <<>>, lxc |-> rt, err |-> ""]

\* Spec.Destroy
DestroyResultWithoutStop(state, rt, stopOut, destroyOut) ==
  IF state.Container = NoContainer THEN [ops |-> <<>>, lxc |-> rt, err |-> ErrNotInitialized]
  ELSE IF ~Defined(rt, state.Container) THEN [ops |-> <<>>, lxc |-> rt, err |-> ErrNotPresent]
  ELSE ContainerDestroy(rt, state.Container, destroyOut)

DestroyResult(state, rt, stopOut, destroyOut) ==
  IF state.Container = NoContainer THEN [ops |-> <<>>, lxc |-> rt, err |-> ErrNotInitialized]
  ELSE IF ~Defined(rt, state.Container) THEN [ops |-> <<>>, lxc |-> rt, err |-> ErrNotPresent]
  ELSE IF Running(rt, state.Container)
  THEN LET stop == ContainerStop(rt, state.Container, stopOut)
       IN IF stop.err # "" THEN stop
          ELSE LET destroy == ContainerDestroy(stop.lxc, state.Container, destroyOut)
               IN [ops |-> stop.ops \o destroy.ops, lxc |-> destroy.lxc, err |-> destroy.err]
  ELSE ContainerDestroy(rt, state.Container, destroyOut)

\* no Build is running and the process is alive
Callable ==
  /\ pc \in {"idle", "done"}
  /\ result \notin {"panic", "exit"}
  /\ Len(calls) < MaxCalls

Returned(call, r) ==
  /\ ops' = ops \o r.ops
  /\ lxc' = r.lxc
  /\ calls' = Append(calls, [call |-> call, ret |-> r.err])
  /\ UNCHANGED <<Statements, State, volumes, pc, idx, result, errAt, err, written>>
  /\ UNCHANGED parseVars

Stop ==
  /\ Callable
  /\ \E stopOut \in {"ok", "err"} : Returned("Stop", StopResult(State, lxc, stopOut))

Destroy ==
  /\ Callable
  /\ \E stopOut \in {"ok", "err"}, destroyOut \in {"ok", "err"} :
       Returned("Destroy", DestroyResult(State, lxc, stopOut, destroyOut))

\* a Spec whose script is a base image directive, or is empty
LifeInit ==
  /\ Init
  /\ Statements \in {<<>>, <<"FROM base">>}

LifeNext ==
  \/ BuildBegin
  \/ StepFROM
  \/ BuildFetch
  \/ BuildWrite
  \/ Stop
  \/ Destroy

LifeSpec == LifeInit /\ [][LifeNext]_vars

TypeOK ==
  /\ pc \in {"idle", "loop", "write", "done"}
  /\ result \in {"none", "ok", "error", "panic", "exit"}
  /\ idx \in 0..(Len(Statements) + 1)

(***************************************************************************)
(* Notions the properties below are stated with.                           *)
(***************************************************************************)
\* the keyword of statement i of the script
Keyword(i) == W(Fields(Statements[i]), 0)

\* the arguments of statement i of the script
Args(i) == SliceFrom(Fields(Statements[i]), 1)

\* the number of statements whose handler has run to its end without ending Build
Completed == IF pc = "idle" THEN 0 ELSE idx - 1

\* Build has returned (or the process has ended) while handling a statement
EndedAtStatement == pc = "done" /\ errAt # 0

\* the requests of kind o in a log
OpsOf(log, o) == {i \in 1..Len(log) : log[i].op = o}

\* args is a mix of KEY=VALUE tokens and of KEY tokens followed by a VALUE token
RECURSIVE EnvWellFormed(_)
EnvWellFormed(args) ==
  IF args = <<>> THEN TRUE
  ELSE IF Contains(Head(args), "=") THEN EnvWellFormed(Tail(args))
  ELSE Len(args) >= 2 /\ EnvWellFormed(Tail(Tail(args)))

\* statement i has the argument tokens its directive takes, in their form
HasItsArgs(i) ==
  CASE Keyword(i) \in {"FROM", "WORKDIR", "USER"} -> Len(Args(i)) >= 1
    [] Keyword(i) \in {"ADD", "COPY"} -> Len(Args(i)) >= 2
    [] Keyword(i) = "ENV" -> EnvWellFormed(Args(i))
    [] Keyword(i) = "LABEL" -> \A j \in 1..Len(Args(i)) : Contains(Args(i)[j], "=")
    [] OTHER -> TRUE

(***************************************************************************)
(* C1: when a directive other than FROM is reached while the Build State   *)
(* holds no container handle, Build returns an error at that directive and *)
(* the directive changes neither the Build State nor the Manifest.         *)
(* (Stated for the statements that have the arguments of their directive.) *)
(***************************************************************************)
C1_ContainerRequired ==
  [][(InLoop /\ Keyword(idx) \in Keywords \ {"FROM"} /\ HasItsArgs(idx)
        /\ State.Container = NoContainer)
       => (pc' = "done" /\ result' = "error" /\ errAt' = idx /\ State' = State)]_vars

(***************************************************************************)
(* C2 as stated, for the scripts whose statements have their arguments and *)
(* a volumes list that is not empty: in a script with two FROM statements  *)
(* Build returns an error at the second FROM, and no command has been      *)
(* executed in a container before that error.                              *)
(***************************************************************************)
C2_TwoFromsFailBeforeAnyCommand ==
  \A i \in 1..Len(Statements) :
    (/\ Keyword(i) = "FROM" /\ \E j \in 1..(i - 1) : Keyword(j) = "FROM"
     /\ volumes # <<>> /\ \A j \in 1..i : HasItsArgs(j))
      => /\ Completed < i
         /\ (EndedAtStatement /\ errAt = i) => (result = "error" /\ OpsOf(ops, "exec") = {})

(***************************************************************************)
(* C2 amended: a FROM reached while the Build State holds a container      *)
(* handle -- which is the case at every FROM that follows a completed FROM *)
(* when the volumes list is not empty -- makes Build return the "Multiple  *)
(* FROM" error at that statement; that FROM clones nothing, runs nothing   *)
(* and leaves the Build State as it is.  Commands of statements between    *)
(* the two FROMs have been executed by then.                               *)
(***************************************************************************)
C2_SecondFromFails ==
  [][(At("FROM")
        /\ \/ State.Container # NoContainer
           \/ (volumes # <<>> /\ \E j \in 1..(idx - 1) : Keyword(j) = "FROM"))
       => (pc' = "done" /\ result' = "error" /\ err' = ErrMultipleFrom /\ errAt' = idx
           /\ State' = State /\ ops' = ops /\ lxc' = lxc)]_vars

\* Build has failed at a second FROM after a command ran in the container
C2_Witness ==
  /\ result = "error"
  /\ err = ErrMultipleFrom
  /\ OpsOf(ops, "exec") # {}

(***************************************************************************)
(* C3: of the entrypoint-setting statements (CMD, ENTRYPOINT) of a script  *)
(* at most one is processed without error: Build returns an error at the   *)
(* second, so the entryPoint is assigned at most once.  (Stated for builds *)
(* that hold a container.)                                                 *)
(***************************************************************************)
C3_EntryPointOnce ==
  State.Container # NoContainer
    => Cardinality({i \in 1..Completed : Keyword(i) \in {"CMD", "ENTRYPOINT"}}) <= 1

(***************************************************************************)
(* C4: the manifest is handed to storage at most once, only after every    *)
(* statement was processed without a fatal error and fetchArtifact         *)
(* returned nil; Build returns success only if fetchArtifact and that      *)
(* write both succeeded, and then the write happened exactly once.         *)
(***************************************************************************)
\* no request whose failure is fatal has failed
NoFatalFailure ==
  \A i \in 1..Len(ops) : ops[i].op \in {"clone", "writefile", "exec", "hostrm"} => ops[i].out = "ok"

C4_ManifestWrittenOnce ==
  /\ Len(written) <= 1
  /\ pc = "write" => (written = <<>> /\ idx = Len(Statements) + 1 /\ NoFatalFailure)
  /\ written # <<>> =>
       (pc = "done" /\ idx = Len(Statements) + 1 /\ errAt = 0 /\ NoFatalFailure
        /\ written[1].manifest = State.Manifest)
  /\ result = "ok" => (Len(written) = 1 /\ written[1].out = "ok")

\* a build that ran commands in the container has succeeded
C4_Witness ==
  /\ result = "ok"
  /\ Len(written) = 1
  /\ written[1].out = "ok"
  /\ OpsOf(ops, "exec") # {}

(***************************************************************************)
(* C5: a fatal error raised while statement i is processed makes Build     *)
(* return that error at once: no later statement, fetchArtifact or         *)
(* writeManifest runs, and the container is neither stopped nor destroyed. *)
(* (Stated for builds that hold a container.)                              *)
(***************************************************************************)
FatalErrors ==
  {ErrMultipleFrom, ErrClone, ErrNoContainer, ErrWriteFile, ErrDriver, ErrExitCode,
   ErrAbs, ErrCp, ErrRm, ErrLabel, ErrEntryPoint}

C5_FatalErrorReturned ==
  (EndedAtStatement /\ err \in FatalErrors /\ State.Container # NoContainer)
    => /\ result = "error"
       /\ idx = errAt
       /\ written = <<>>
       /\ OpsOf(ops, "stop") \cup OpsOf(ops, "destroy") = {}

(***************************************************************************)
(* C6: of the arguments of an EXPOSE statement exactly those that parse as *)
(* base-10 unsigned integers are added to exposedPorts, in argument order; *)
(* the others add nothing.  (Stated for builds that hold a container and   *)
(* whose base image brought no ports of its own.)                          *)
(***************************************************************************)
IsDecimal(p) == p # "" /\ \A i \in 1..Len(p) : Char(p, i) \in Digits

RECURSIVE ValidPorts(_)
ValidPorts(args) ==
  IF args = <<>> THEN <<>>
  ELSE (IF IsDecimal(Head(args)) THEN <<DecimalValue(Head(args), 0)>> ELSE <<>>)
       \o ValidPorts(Tail(args))

\* the ports the first n statements expose
RECURSIVE PortsUpTo(_)
PortsUpTo(n) ==
  IF n = 0 THEN <<>>
  ELSE PortsUpTo(n - 1) \o (IF Keyword(n) = "EXPOSE" THEN ValidPorts(Args(n)) ELSE <<>>)

NoFullLoad == \A i \in OpsOf(ops, "load") : ops[i].out # "full"

C6_OnlyParsedPorts ==
  (NoFullLoad /\ State.Container # NoContainer)
    => State.Manifest.ExposedPorts = PortsUpTo(Completed)

(***************************************************************************)
(* C7: an ENV statement whose arguments are a mix of KEY=VALUE tokens and  *)
(* KEY VALUE pairs appends one entry per assignment, in argument order, to *)
(* State.Env and to Manifest.Env alike (a KEY VALUE pair as "KEY=VALUE")   *)
(* and the loop goes on; and no step of the loop removes, changes or       *)
(* reorders an entry of either list: both only grow at their end.          *)
(***************************************************************************)
RECURSIVE ExpectedEnv(_)
ExpectedEnv(args) ==
  IF args = <<>> THEN <<>>
  ELSE IF Contains(Head(args), "=") THEN <<Head(args)>> \o ExpectedEnv(Tail(args))
  ELSE <<Head(args) \o "=" \o Head(Tail(args))>> \o ExpectedEnv(Tail(Tail(args)))

C7_EnvAppended ==
  [][pc = "loop" =>
       /\ IsPrefix(State.Env, State'.Env)
       /\ IsPrefix(State.Manifest.Env, State'.Manifest.Env)
       /\ (At("ENV") /\ EnvWellFormed(Args(idx))) =>
            /\ pc' = "loop" /\ idx' = idx + 1
            /\ State'.Env = State.Env \o ExpectedEnv(Args(idx))
            /\ State'.Manifest.Env = State.Manifest.Env \o ExpectedEnv(Args(idx))
       /\ ~At("ENV") => State'.Env = State.Env
       /\ (~At("ENV") /\ ~At("FROM")) => State'.Manifest.Env = State.Manifest.Env]_vars

\* `ENV A=1 B 2` has been processed after an earlier ENV statement
C7_Witness ==
  /\ State.Container # NoContainer
  /\ Completed >= 2
  /\ Statements[Completed] = "ENV A=1 B 2"
  /\ Keyword(Completed - 1) = "ENV"
  /\ Len(State.Env) = 4
  /\ SubSeq(State.Env, 3, 4) = <<"A=1", "B=2">>
  /\ State.Manifest.Env = State.Env

(***************************************************************************)
(* C8: a LABEL argument with '=' sets labels[key] = value, key being the   *)
(* text before the first '=' and value ALL the text after it; a later      *)
(* write to the same key replaces the value; a LABEL statement with an     *)
(* argument without '=' never runs to its end.  (The label values are      *)
(* stated for builds that hold a container and whose base image brought no *)
(* labels of its own.)                                                     *)
(***************************************************************************)
RECURSIVE IndexOf(_, _, _)
IndexOf(s, c, i) == IF i > Len(s) \/ Char(s, i) = c THEN i ELSE IndexOf(s, c, i + 1)

BeforeFirst(s, c) == SubSeq(s, 1, IndexOf(s, c, 1) - 1)

AfterFirst(s, c) == SubSeq(s, IndexOf(s, c, 1) + 1, Len(s))

\* the labels the LABEL arguments args set, on top of labels
RECURSIVE ExpectedLabels(_, _)
ExpectedLabels(labels, args) ==
  IF args = <<>> THEN labels
  ELSE ExpectedLabels(
         [k \in DOMAIN labels \cup {BeforeFirst(Head(args), "=")} |->
            IF k = BeforeFirst(Head(args), "=") THEN AfterFirst(Head(args), "=") ELSE labels[k]],
         Tail(args))

\* the labels the first n statements set
RECURSIVE LabelsUpTo(_)
LabelsUpTo(n) ==
  IF n = 0 THEN NoLabels
  ELSE IF Keyword(n) = "LABEL" THEN ExpectedLabels(LabelsUpTo(n - 1), Args(n))
  ELSE LabelsUpTo(n - 1)

C8_LabelSplitAtFirstEquals ==
  /\ \A i \in 1..Completed :
       Keyword(i) = "LABEL" => \A j \in 1..Len(Args(i)) : Contains(Args(i)[j], "=")
  /\ (NoFullLoad /\ State.Container # NoContainer)
       => State.Manifest.Labels = LabelsUpTo(Completed)

(***************************************************************************)
(* C9 as stated, for a volumes list that is not empty: with a runtime that *)
(* does not fail, and whatever loading the base image's manifest comes to, *)
(* building RoundTripScript succeeds and writes exactly RoundTripManifest. *)
(***************************************************************************)
RoundTripManifest ==
  [Env |-> <<"X=1">>, Labels |-> NoLabels, ExposedPorts |-> <<>>, Maintainers |-> <<>>,
   WorkDir |-> "/srv", User |-> "", EntryPoint |-> <<"[\"run\"]">>]

\* the errors that come from a failing runtime, file system or encoder
RuntimeErrors ==
  {ErrClone, ErrWriteFile, ErrDriver, ErrExitCode, ErrAbs, ErrCp, ErrRm, ErrMarshal,
   ErrWriteManifest}

RoundTripBuilt ==
  /\ result = "ok"
  /\ Len(written) = 1
  /\ written[1].manifest = RoundTripManifest

C9_RoundTripWhateverLoad ==
  (Statements = RoundTripScript /\ pc = "done" /\ err \notin RuntimeErrors /\ volumes # <<>>)
    => RoundTripBuilt

(***************************************************************************)
(* C9 amended: with a runtime that does not fail, building RoundTripScript *)
(* with at least one volume succeeds and writes exactly RoundTripManifest  *)
(* when loading the base image's manifest fails or loads an empty          *)
(* manifest.  (With no volume no container is cloned and Build ends in a   *)
(* nil dereference in fetchArtifact.)                                      *)
(***************************************************************************)
C9_RoundTrip ==
  (Statements = RoundTripScript /\ pc = "done" /\ err \notin RuntimeErrors)
    => /\ (volumes # <<>> /\ NoFullLoad) => RoundTripBuilt
       /\ (volumes = <<>> /\ NoFullLoad) => (result = "panic" /\ written = <<>>)

\* the round trip has been made
C9_Witness ==
  /\ Statements = RoundTripScript
  /\ RoundTripBuilt
  /\ State.Env = <<"X=1">>
  /\ State.Cwd = "/srv"

(***************************************************************************)
(* C10: Parse discards a line that begins with '#' whatever precedes it    *)
(* and whatever it ends with: the line neither adds to the accumulator     *)
(* previousStatement nor ends it, and emits nothing; a statement is        *)
(* emitted only when a line is read that is not a comment, does not end    *)
(* with a backslash and is not blank.                                      *)
(***************************************************************************)
BeginsWithHash(line) == HasPrefix(line, "#")

EndsWithBackslash(line) == Len(line) >= 1 /\ SubSeq(line, Len(line), Len(line)) = "\\"

IsBlank(line) == \A i \in 1..Len(line) : IsSpace(Char(line, i))

C10_CommentDiscarded ==
  [][/\ (Scanning /\ BeginsWithHash(CurLine))
          => (previousStatement' = previousStatement /\ Statements' = Statements
              /\ lineNo' = lineNo + 1 /\ parsePc' = "scan")
     /\ Statements' # Statements
          => (/\ Scanning
              /\ ~BeginsWithHash(CurLine) /\ ~EndsWithBackslash(CurLine) /\ ~IsBlank(CurLine)
              /\ Len(Statements') = Len(Statements) + 1)]_vars

\* a comment line that ends with a backslash has been read while continuation
\* lines were pending, and the statement has then been emitted
C10_Witness ==
  /\ lineNo = 3
  /\ file = <<"RUN a \\", "#c \\", "RUN c">>
  /\ Statements = <<"RUN a  RUN c">>
  /\ previousStatement = ""

(***************************************************************************)
(* What one reading of a file emits, stated line by line.                   *)
(***************************************************************************)
\* the line ends an accumulation and is emitted
Terminates(line) == ~BeginsWithHash(line) /\ ~EndsWithBackslash(line) /\ ~IsBlank(line)

\* the line is a continuation line
Continues(line) == ~BeginsWithHash(line) /\ EndsWithBackslash(line)

RECURSIVE StripBackslashes(_)
StripBackslashes(line) ==
  IF EndsWithBackslash(line) THEN StripBackslashes(SubSeq(line, 1, Len(line) - 1)) ELSE line

\* index of the last terminating line before line i of f, 0 if there is none
RECURSIVE LastTerminatorBefore(_, _)
LastTerminatorBefore(f, i) ==
  IF i <= 1 THEN 0
  ELSE IF Terminates(f[i - 1]) THEN i - 1
  ELSE LastTerminatorBefore(f, i - 1)

\* the continuation lines among lines lo..hi of f, stripped
RECURSIVE StrippedContinuations(_, _, _)
StrippedContinuations(f, lo, hi) ==
  IF lo > hi THEN <<>>
  ELSE (IF Continues(f[lo]) THEN <<StripBackslashes(f[lo])>> ELSE <<>>)
       \o StrippedContinuations(f, lo + 1, hi)

RECURSIVE DropLeadingEmpty(_)
DropLeadingEmpty(ls) ==
  IF ls # <<>> /\ Head(ls) = "" THEN DropLeadingEmpty(Tail(ls)) ELSE ls

\* the continuation lines read since the previous emission, when line i is read
Pending(f, i) == StrippedContinuations(f, LastTerminatorBefore(f, i) + 1, i - 1)

\* the space-join of all pending continuation lines and the terminating line i
JoinedWithAllPending(f, i) == Join(Pending(f, i) \o <<f[i]>>, " ")

\* the same, the pending lines taken from the first that is not empty
JoinedWithPending(f, i) == Join(DropLeadingEmpty(Pending(f, i)) \o <<f[i]>>, " ")

RECURSIVE ClaimedUpTo(_, _)
ClaimedUpTo(f, n) ==
  IF n = 0 THEN <<>>
  ELSE ClaimedUpTo(f, n - 1)
       \o (IF Terminates(f[n]) THEN <<JoinedWithAllPending(f, n)>> ELSE <<>>)

RECURSIVE EmittedUpTo(_, _)
EmittedUpTo(f, n) ==
  IF n = 0 THEN <<>>
  ELSE EmittedUpTo(f, n - 1)
       \o (IF Terminates(f[n]) THEN <<JoinedWithPending(f, n)>> ELSE <<>>)

(***************************************************************************)
(* C11: whenever Parse has returned without error, the Statements of the   *)
(* Spec are those a single reading of the file emits -- also when Parse    *)
(* has read the file once before on the same Spec.                         *)
(***************************************************************************)
C11_ReparseIdempotent ==
  (parsePc = "returned" /\ parseErr = "nil") => Statements = EmittedUpTo(file, Len(file))

(***************************************************************************)
(* C18 as stated: during and after the first reading of a file, Statements *)
(* holds one statement per line read so far that is not a comment, does    *)
(* not end with a backslash and is not blank, in line order, each the      *)
(* space-join of ALL the stripped continuation lines read since the        *)
(* previous emission and of that line; Parse returns nil at end-of-stream. *)
(***************************************************************************)
C18_EmitsJoinOfAllPending ==
  (parses = 1 /\ parseErr # "open")
    => /\ Statements = ClaimedUpTo(file, lineNo)
       /\ parsePc = "returned" => (parseErr = "nil" /\ lineNo = Len(file))

(***************************************************************************)
(* C18 amended: the same, each statement being the space-join of the       *)
(* stripped continuation lines read since the previous emission, taken     *)
(* from the first of them that is not empty once stripped, and of the      *)
(* terminating line.  Every statement holds at least one token; blank      *)
(* lines and comments neither end nor alter the accumulation; continuation *)
(* lines pending at end-of-stream give no statement and no error.          *)
(***************************************************************************)
C18_EmitsJoinOfPending ==
  (parses = 1 /\ parseErr # "open")
    => /\ Statements = EmittedUpTo(file, lineNo)
       /\ \A i \in 1..Len(Statements) : Fields(Statements[i]) # <<>>
       /\ parsePc = "returned" => (parseErr = "nil" /\ lineNo = Len(file))

\* a continuation line that is a lone backslash, a continuation line and the
\* terminating line have been read and emitted as one statement
C18_Witness ==
  /\ parses = 1
  /\ parsePc = "returned"
  /\ file = <<"\\", " b\\\\", "RUN c">>
  /\ Statements = <<" b RUN c">>

(***************************************************************************)
(* C12: once all statements are processed (and a container is held),       *)
(* artifact extraction acts on exactly the labels whose key begins with    *)
(* nut_artifact_, each once, in some order: it runs `cp -r <value>         *)
(* /tmp/<basename>` in the container and then copies                       *)
(* <rootfs>/tmp/<basename> to <basename> on the host.  When the copy in    *)
(* the container fails, nothing further is attempted, Build returns an     *)
(* error and no manifest is written; when the copy to the host fails,      *)
(* extraction goes on with the next artifact.                              *)
(***************************************************************************)
MarkedLabels(labels) ==
  {k \in DOMAIN labels : Len(k) >= 13 /\ SubSeq(k, 1, 13) = "nut_artifact_"}

\* the script of the copy inside the container for a label value v
InnerCopyText(state, v) == ScriptText(state, <<"cp", "-r", v, "/tmp/" \o Base(v)>>)

\* the copy from the container's root file system to the host
OuterCopyArg(state, v) == Rootfs(state.Container) \o "/tmp/" \o Base(v) \o " " \o Base(v)

\* how a log of requests reads as the extraction of the labels of order:
\* "all" (every artifact was attempted and no copy in the container failed),
\* "aborted" (it ends with a failed copy in the container), "other"
RECURSIVE Extraction(_, _, _)
Extraction(state, log, order) ==
  IF order = <<>> THEN (IF log = <<>> THEN "all" ELSE "other")
  ELSE
    LET v == state.Manifest.Labels[Head(order)]
        text == InnerCopyText(state, v)
    IN IF /\ Len(log) >= 3
          /\ log[1] = Op("writefile", text, "ok")
          /\ log[2] = Op("exec", text, "ok")
          /\ log[3].op = "hostcp" /\ log[3].arg = OuterCopyArg(state, v)
       THEN Extraction(state, SubSeq(log, 4, Len(log)), Tail(order))
       ELSE IF \/ log = <<Op("writefile", text, "err")>>
               \/ /\ Len(log) = 2
                  /\ log[1] = Op("writefile", text, "ok")
                  /\ log[2].op = "exec" /\ log[2].arg = text /\ log[2].out # "ok"
       THEN "aborted"
       ELSE "other"

C12_ArtifactExtraction ==
  [][(pc = "loop" /\ idx > Len(Statements) /\ State.Container # NoContainer)
       => /\ State' = State
          /\ \E order \in Orders(MarkedLabels(State.Manifest.Labels)) :
               LET read == Extraction(State, SubSeq(ops', Len(ops) + 1, Len(ops')), order)
               IN \/ read = "all" /\ pc' = "write" /\ result' = "none"
                  \/ read = "aborted" /\ pc' = "done" /\ result' = "error" /\ written' = <<>>]_vars

\* a build with two artifacts has succeeded although the copy of the first
\* artifact to the host failed
C12_Witness ==
  /\ result = "ok"
  /\ Cardinality(MarkedLabels(State.Manifest.Labels)) = 2
  /\ DOMAIN State.Manifest.Labels # MarkedLabels(State.Manifest.Labels)
  /\ \E i, j \in OpsOf(ops, "hostcp") : i < j /\ ops[i].out = "err" /\ ops[j].out = "ok"

(***************************************************************************)
(* C13: at every point of every build the environment list of the Build    *)
(* State equals the env list of the Manifest and the working directory of  *)
(* the Build State equals the workDir of the Manifest.  (Stated for builds *)
(* with at least one volume.)                                              *)
(***************************************************************************)
C13_StateMirrorsManifest ==
  volumes # <<>>
    => /\ State.Env = State.Manifest.Env
       /\ State.Cwd = State.Manifest.WorkDir

(***************************************************************************)
(* C14: for every volumes list, the first FROM of a script requests one    *)
(* clone per volume, in list order; a failed clone ends Build with its     *)
(* error and no further clone is requested; a FROM processed without error *)
(* leaves a container handle in the Build State, the one cloned for the    *)
(* last volume; the outcome of loading the base manifest never fails it.   *)
(***************************************************************************)
C14_ClonePerVolume ==
  [][(At("FROM") /\ HasItsArgs(idx) /\ ~\E j \in 1..(idx - 1) : Keyword(j) = "FROM")
       => LET new == SubSeq(ops', Len(ops) + 1, Len(ops'))
              c == Cardinality(OpsOf(new, "clone"))
          IN /\ c <= Len(volumes)
             /\ \A i \in 1..c :
                  /\ new[i].op = "clone"
                  /\ new[i].arg = Args(idx)[1] \o " " \o volumes[i]
                  /\ i < c => new[i].out = "ok"
             /\ IF c >= 1 /\ new[c].out = "err"
                THEN /\ Len(new) = c
                     /\ pc' = "done" /\ result' = "error" /\ err' = ErrClone
                ELSE /\ c = Len(volumes)
                     /\ pc' = "loop" /\ idx' = idx + 1
                     /\ State'.Container # NoContainer
                     /\ State'.Container = Handle(volumes[Len(volumes)])]_vars

(***************************************************************************)
(* C15: the script a RUN statement at position i has executed in the       *)
(* container is: the shebang line; one export line per entry the ENV       *)
(* statements before i have added, in that order; a cd line iff a WORKDIR  *)
(* statement precedes i, with the value of the most recent one; a su -     *)
(* line iff a user is set, with the value of the most recent USER          *)
(* statement; the arguments of the RUN joined by spaces.  The statements   *)
(* after i do not enter it.                                                *)
(***************************************************************************)
\* the entries the ENV statements before statement i have added
RECURSIVE EnvBefore(_)
EnvBefore(i) ==
  IF i <= 1 THEN <<>>
  ELSE EnvBefore(i - 1) \o (IF Keyword(i - 1) = "ENV" THEN ExpectedEnv(Args(i - 1)) ELSE <<>>)

\* the argument of the most recent statement with keyword kw before i, "" if none
RECURSIVE MostRecent(_, _)
MostRecent(kw, i) ==
  IF i <= 1 THEN ""
  ELSE IF Keyword(i - 1) = kw THEN Args(i - 1)[1]
  ELSE MostRecent(kw, i - 1)

RECURSIVE ExportLines(_)
ExportLines(entries) ==
  IF entries = <<>> THEN ""
  ELSE "export " \o Head(entries) \o "\n" \o ExportLines(Tail(entries))

ExpectedScript(i) ==
  "#!/bin/bash\n"
  \o ExportLines(EnvBefore(i))
  \o (IF MostRecent("WORKDIR", i) # "" THEN "cd " \o MostRecent("WORKDIR", i) \o "\n" ELSE "")
  \o (IF MostRecent("USER", i) # "" THEN "su - " \o MostRecent("USER", i) \o "\n" ELSE "")
  \o Join(Args(i), " ")

StagingSteps(state, src, dest) ==
  LET staged == Rootfs(state.Container) \o "/tmp/" \o Base(Abs(src))
      text == ScriptText(state, <<"cp", "-r", "/tmp/" \o Base(Abs(src)), dest>>)
  IN <<Op("hostcp", Abs(src) \o " " \o staged, "ok"),
       Op("writefile", text, "ok"),
       Op("exec", text, "ok"),
       Op("hostrm", staged, "ok")>>

C16_AddCopySteps ==
  [][(InLoop /\ Keyword(idx) \in {"ADD", "COPY"} /\ HasItsArgs(idx)
        /\ State.Container # NoContainer)
       => LET new == SubSeq(ops', Len(ops) + 1, Len(ops'))
              steps == StagingSteps(State, Args(idx)[1], Args(idx)[2])
          IN /\ State' = State
             /\ Len(new) <= Len(steps)
             /\ \A i \in 1..Len(new) :
                  /\ new[i].op = steps[i].op /\ new[i].arg = steps[i].arg
                  /\ i < Len(new) => new[i].out = "ok"
             /\ IF new = steps
                THEN pc' = "loop" /\ idx' = idx + 1
                ELSE /\ pc' = "done" /\ result' = "error" /\ errAt' = idx
                     /\ new # <<>> => new[Len(new)].out # "ok"]_vars

\* an ADD and a COPY of the same source and destination have both been
\* processed without error, with the same requests
C16_Witness ==
  /\ Statements = <<"FROM base", "ADD a /b", "COPY a /b">>
  /\ volumes = <<"v1">>
  /\ Completed = 3
  /\ Len(ops) = 10
  /\ SubSeq(ops, 3, 6) = SubSeq(ops, 7, 10)
  /\ ops[3] = Op("hostcp", "/host/a /lxc/ct-v1/rootfs/tmp/a", "ok")
  /\ ops[10] = Op("hostrm", "/lxc/ct-v1/rootfs/tmp/a", "ok")

(***************************************************************************)
(* C17: a statement whose keyword is VOLUME, STOPSIGNAL or none of the     *)
(* keywords of the switch leaves the whole Build State as it is, requests  *)
(* nothing of the container or of the file system, and the loop goes on    *)
(* with the next statement.                                                *)
(***************************************************************************)
C17_NoOpStatements ==
  [][(InLoop /\ (Keyword(idx) \in {"VOLUME", "STOPSIGNAL"} \/ Keyword(idx) \notin Keywords))
       => /\ State' = State
          /\ ops' = ops /\ lxc' = lxc /\ written' = written
          /\ pc' = "loop" /\ idx' = idx + 1
          /\ result' = "none" /\ err' = "" /\ errAt' = 0]_vars

\* a build whose script holds a VOLUME statement and an unknown keyword has
\* succeeded, and its manifest holds nothing of them
C17_Witness ==
  /\ Statements = <<"FROM base", "VOLUME /v", "BOGUS x">>
  /\ result = "ok"
  /\ Len(written) = 1
  /\ written[1].manifest = EmptyManifest

(***************************************************************************)
(* C19: Stop and Destroy return an error and request nothing of the        *)
(* runtime when the Build State holds no container handle or the container *)
(* is not defined; Destroy never requests the destruction of a running     *)
(* container: it stops a running container first, and when that stop fails *)
(* it returns the error of the stop and the container stays defined.       *)
(***************************************************************************)
C19_StopDestroy ==
  [][calls' # calls
       => LET new == SubSeq(ops', Len(ops) + 1, Len(ops'))
              call == calls'[Len(calls')]
              c == State.Container
          IN /\ (c = NoContainer \/ c \notin lxc.defined)
                  => (call.ret # "" /\ new = <<>> /\ lxc' = lxc)
             /\ \A i \in 1..Len(new) :
                  new[i].op = "destroy"
                    => /\ call.call = "Destroy"
                       /\ new[i].arg = c
                       /\ \/ i = 1 /\ c \notin lxc.running
                          \/ i = 2 /\ new[1] = Op("stop", c, "ok")
             /\ (call.call = "Destroy" /\ c # NoContainer /\ c \in lxc.defined
                   /\ c \in lxc.running)
                  => /\ new[1].op = "stop" /\ new[1].arg = c
                     /\ new[1].out = "err"
                          => (call.ret = ErrStop /\ Len(new) = 1 /\ c \in lxc'.defined)]_vars

\* a Destroy whose stop failed has left the container running and defined,
\* a second Destroy has stopped and destroyed it, and a Stop after that has
\* returned the error of a container that is not present
C19_Witness ==
  /\ State.Container = "ct-v1"
  /\ calls = <<[call |-> "Destroy", ret |-> ErrStop], [call |-> "Destroy", ret |-> ""],
               [call |-> "Stop", ret |-> ErrNotPresent]>>
  /\ SubSeq(ops, Len(ops) - 2, Len(ops)) =
       <<Op("stop", "ct-v1", "err"), Op("stop", "ct-v1", "ok"), Op("destroy", "ct-v1", "ok")>>
  /\ "ct-v1" \notin lxc.defined

(***************************************************************************)
(* C20: for every script and every volumes list, Build ends by returning   *)
(* success or by returning an error: it never ends in a run-time panic     *)
(* (an index past the tokens of a statement, a nil container handle) nor   *)
(* with the exit of the process.                                           *)
(***************************************************************************)
C20_BuildReturns ==
  pc = "done" => result \in {"ok", "error"}

====
